---- MODULE Spec2Model ----
(***************************************************************************)
(* A model of soda/contract/parser/contract_parser.py: the ContractParser  *)
(* object (files, plugins, variable_resolver, and the attribute `logs`     *)
(* that its methods read), the sinks that receive its diagnostics, and its *)
(* two operations parse and validate_semantics.                            *)
(***************************************************************************)
EXTENDS Integers, Sequences, FiniteSets, TLC

\* ------------------------------------------------------------------ bounds
\* Number of parse / validate_semantics calls in one session.
MaxCalls == 3
\* Number of entries a client puts on the plugin list.
MaxPlugins == 2
\* Length of a registry given as input to validate_semantics (SpecV).
MaxFiles == 3

\* --------------------------------------------------------------- universes
Sinks == {"s1", "s2"}
\* The i-th file handed to the parser comes from its own path, and the i-th
\* plugin put on the plugin list is a plugin of its own.
PathAt(i) == "file" \o ToString(i) \o ".yml"
PluginAt(i) == "plugin" \o ToString(i)
Resolvers == {"noop", "subst"}

\* self.logs when no assignment to it has happened.
Unset == "unset"

\* A field value: the key is absent, holds a number, or holds a string.
Absent == "-"
NonString == "#7"
Placeholder == "${DS}"
\* A variable whose value is itself written like a variable.
NestedPlaceholder == "${REF}"

\* A YAML text, by what the YAML loader makes of it: its top-level shape and,
\* for a mapping, the values under the keys `name` and `datasource`.
Text(shape, name, datasource) ==
    [shape |-> shape, name |-> name, datasource |-> datasource]

DatasourceText(n) == Text("map", n, Absent)
ContractText(d) == Text("map", Absent, d)
SeqText == Text("seq", Absent, Absent)
ScalarText == Text("scalar", Absent, Absent)
InvalidText == Text("invalid", Absent, Absent)
NoText == Text("-", Absent, Absent)

Texts ==
    { DatasourceText("db1"), ContractText("db1"),
      ContractText(NestedPlaceholder), SeqText, ScalarText, InvalidText }

\* ---------------------------------------------------------------- locations
ParserLocation(file_path, line, column) ==
    [file_path |-> file_path, line |-> line, column |-> column]

\* The value of a `location` argument that a call does not pass.
NoLocation == ParserLocation("None", -1, -1)
NoDocsRef == "None"

\* ------------------------------------------------------------ the resolver
Substitute(v) ==
    IF v = Placeholder THEN "db1"
    ELSE IF v = NestedPlaceholder THEN Placeholder ELSE v

\* ParserResolver.resolve_variables: the default resolver changes nothing, an
\* injected one replaces the placeholder.
resolve_variables(resolver, text) ==
    IF resolver = "subst"
    THEN [text EXCEPT !.name = Substitute(@), !.datasource = Substitute(@)]
    ELSE text

\* ------------------------------------------------------------ the YAML load
RuamelObject(type, name, datasource, line, column) ==
    [type |-> type, name |-> name, datasource |-> datasource,
     line |-> line, column |-> column]

\* What `return None` / falling off the end of _parse_yaml_str hands back.
NoneObject == RuamelObject("NoneType", Absent, Absent, 0, 0)

\* self.yaml.load(file_content_str): a CommentedMap, a CommentedSeq, a scalar,
\* or a MarkedYAMLError carrying the problem mark.
yaml_load(text) ==
    CASE text.shape = "map" ->
           RuamelObject("CommentedMap", text.name, text.datasource, 0, 0)
      [] text.shape = "seq" ->
           RuamelObject("CommentedSeq", Absent, Absent, 0, 0)
      [] text.shape = "scalar" ->
           RuamelObject("str", Absent, Absent, 0, 0)
      [] OTHER ->
           RuamelObject("MarkedYAMLError", Absent, Absent, 1, 4)

\* ------------------------------------------------------------- diagnostics
\* One call on a ParserLogs object: the method, the message and the
\* `location` and `docs_ref` arguments as the call site passes them.
Entry(severity, fmt, arg, n, location, docs_ref) ==
    [severity |-> severity, fmt |-> fmt, arg |-> arg, n |-> n,
     location |-> location, docs_ref |-> docs_ref]

DebugEntry(file_path) ==
    Entry("debug", "Parsing file '{}'", file_path, 0, NoLocation, NoDocsRef)

SyntaxErrorLocation(file_path, e) ==
    ParserLocation(file_path, e.line, e.column)

SyntaxErrorEntry(file_path, e) ==
    Entry("error", "Invalid YAML: {}", "MarkedYAMLError", 0,
          SyntaxErrorLocation(file_path, e), NoDocsRef)

ActualTypeName(root) ==
    IF root.type = "CommentedSeq" THEN "list" ELSE root.type

StructuralErrorLocation(file_path) == NoLocation

StructuralErrorEntry(file_path, root) ==
    Entry("error", "All top level YAML elements must be objects, but was '{}'",
          ActualTypeName(root), 0, StructuralErrorLocation(file_path),
          "04-data-contract-language.md#file-type")

DuplicateEntry(name, n, location) ==
    Entry("error", "Datasource '{}' was declared {} times", name, n,
          location, NoDocsRef)

UndefinedEntry(reference, location) ==
    Entry("error", "Datasource '{}' is not defined", reference, 0,
          location, NoDocsRef)

\* logs.debug(...) / logs.error(...) on the sink s.
Log(sk, s, e) == [sk EXCEPT ![s] = Append(@, e)]

RECURSIVE LogAll(_, _, _)
LogAll(sk, s, es) ==
    IF es = <<>> THEN sk ELSE LogAll(Log(sk, s, Head(es)), s, Tail(es))

\* -------------------------------------------------------------- typed files
ParserFile(cls, file_path, file_content_str, root) ==
    [cls |-> cls, file_path |-> file_path,
     file_content_str |-> file_content_str, root |-> root]

\* The class parse instantiates for every file.
ParsedFileClass == "ParserDataContractFile"

NewParserFile(file_path, contract_yaml_str, root) ==
    ParserFile(ParsedFileClass, file_path, contract_yaml_str, root)

\* A typed accessor over the root mapping: a YamlString with the value and
\* its location when the key holds text, and no YamlString otherwise.
YamlValue(v, location) ==
    [type |-> IF v = Absent THEN "NoneType"
              ELSE IF v = NonString THEN "YamlNumber" ELSE "YamlString",
     value |-> v, location |-> location]

NameOf(file) ==
    YamlValue(file.root.name, ParserLocation(file.file_path, 0, 6))

DatasourceOf(file) ==
    YamlValue(file.root.datasource,
              ParserLocation(file.file_path,
                             IF file.root.name = Absent THEN 0 ELSE 1, 12))

IsYamlString(y) == y.type = "YamlString"

\* ------------------------------------------------------- what a call hands back
NoFile == ParserFile("None", "-", NoText, NoneObject)
Returned(parser_file) == [kind |-> "file", file |-> parser_file]
ReturnedNone == [kind |-> "None", file |-> NoFile]
RaisedAttributeError == [kind |-> "AttributeError", file |-> NoFile]

\* ------------------------------------------------------------------- state
VARIABLES
    files,              \* self.files: the typed files, in the order added
    plugins,            \* self.plugins
    variable_resolver,  \* self.variable_resolver
    self_logs,          \* the attribute self.logs: Unset, or the sink it names
    sinks,              \* each ParserLogs object: the calls it has received
    hist                \* the calls made on the parser, with what each returned

vars == <<files, plugins, variable_resolver, self_logs, sinks, hist>>

\* -------------------------------------------------------------- validation
\* d.setdefault(k, []) ; d[k].append(v)
DictAppend(d, k, v) ==
    IF \E i \in 1..Len(d) : d[i].key = k
    THEN [i \in 1..Len(d) |->
            IF d[i].key = k THEN [key |-> k, val |-> Append(d[i].val, v)]
            ELSE d[i]]
    ELSE Append(d, [key |-> k, val |-> <<v>>])

IsDatasourceFile(file) == file.cls = "ParserDatasourceFile"
IsDataContractFile(file) == file.cls = "ParserDataContractFile"

RECURSIVE CollectLocations(_, _)
CollectLocations(fs, d) ==
    IF fs = <<>> THEN d
    ELSE LET file == Head(fs)
         IN  CollectLocations(Tail(fs),
                 IF IsDatasourceFile(file) /\ IsYamlString(NameOf(file))
                 THEN DictAppend(d, NameOf(file).value, NameOf(file).location)
                 ELSE d)

\* The dict of an earlier validate_semantics call kept, not a fresh one.
datasource_locations_kept ==
    IF hist = <<>> THEN <<>> ELSE CollectLocations(files, <<>>)

\* datasource_locations = {} : a dict as its items in insertion order.
datasource_locations_init == <<>>

duplicate_declared_datasources(d) ==
    SelectSeq(d, LAMBDA kv : Len(kv.val) > 1)

ErrorsOfName(kv) ==
    [i \in 1..Len(kv.val) |-> DuplicateEntry(kv.key, Len(kv.val), kv.val[i])]

RECURSIVE DuplicateErrors(_)
DuplicateErrors(dups) ==
    IF dups = <<>> THEN <<>>
    ELSE ErrorsOfName(Head(dups)) \o DuplicateErrors(Tail(dups))

declared_datasource_names(d) == { d[i].key : i \in 1..Len(d) }

IsUndefined(datasource_reference, declared) ==
    datasource_reference \notin declared

RECURSIVE UndefinedErrors(_, _)
UndefinedErrors(fs, declared) ==
    IF fs = <<>> THEN <<>>
    ELSE LET file == Head(fs)
             rest == UndefinedErrors(Tail(fs), declared)
         IN  IF /\ IsDataContractFile(file)
                /\ IsYamlString(DatasourceOf(file))
                /\ IsUndefined(DatasourceOf(file).value, declared)
             THEN <<UndefinedEntry(DatasourceOf(file).value,
                                   DatasourceOf(file).location)>> \o rest
             ELSE rest

\* The reference check run before the duplicate check.
SemanticErrorsReferencesFirst(fs) ==
    LET d == CollectLocations(fs, datasource_locations_init)
    IN  UndefinedErrors(fs, declared_datasource_names(d))
        \o DuplicateErrors(duplicate_declared_datasources(d))

\* The self.logs.error calls of _validate_datasource_names, in order.
SemanticErrors(fs) ==
    LET d == CollectLocations(fs, datasource_locations_init)
    IN  DuplicateErrors(duplicate_declared_datasources(d))
        \o UndefinedErrors(fs, declared_datasource_names(d))

\* ----------------------------------------------------------------- parsing
\* A registration that puts the new file in front of the earlier ones.
RegisterFileAtFront(fs, parser_file) == <<parser_file>> \o fs

\* self.files.append(parser_file)
RegisterFile(fs, parser_file) == Append(fs, parser_file)

\* The plugin pass made over the plugin list back to front.
PluginPassReversed(pl, parser_file, fs) ==
    [i \in 1..Len(pl) |->
        [plugin |-> pl[Len(pl) + 1 - i], file |-> parser_file,
         nfiles |-> Len(fs)]]

\* for plugin in self.plugins: plugin.parse(file=parser_file). Each invocation
\* is recorded with the plugin, the file and the registry length it sees.
PluginPass(pl, parser_file, fs) ==
    [i \in 1..Len(pl) |->
        [plugin |-> pl[i], file |-> parser_file, nfiles |-> Len(fs)]]

\* What parse hands back when it reaches the end of its body.
ParseReturn(parser_file) == ReturnedNone

Outcome(fs, sk, result, invoked) ==
    [files |-> fs, sinks |-> sk, result |-> result, invoked |-> invoked]

\* ContractParser._parse_yaml_str, lines 81-88: the loaded object, or, on a
\* MarkedYAMLError, the error reported through self.logs and nothing returned;
\* reading self.logs raises AttributeError when the attribute is not there.
ParseYamlStr(sk, file_path, file_content_str) ==
    LET loaded == yaml_load(file_content_str)
    IN  IF loaded.type # "MarkedYAMLError"
        THEN [root |-> loaded, sinks |-> sk, raised |-> FALSE]
        ELSE IF self_logs = Unset
        THEN [root |-> NoneObject, sinks |-> sk, raised |-> TRUE]
        ELSE [root |-> NoneObject,
              sinks |-> Log(sk, self_logs, SyntaxErrorEntry(file_path, loaded)),
              raised |-> FALSE]

\* A parse that runs the resolver over its own output a second time.
ParseOutcomeResolvingTwice(contract_yaml_str, file_path, logs) ==
    LET resolved == resolve_variables(variable_resolver,
                        resolve_variables(variable_resolver, contract_yaml_str))
        s1 == Log(sinks, logs, DebugEntry(file_path))
        y == ParseYamlStr(s1, file_path, resolved)
    IN  IF y.raised
        THEN Outcome(files, y.sinks, RaisedAttributeError, <<>>)
        ELSE IF y.root.type # "CommentedMap"
        THEN Outcome(files,
                     Log(y.sinks, logs, StructuralErrorEntry(file_path, y.root)),
                     ReturnedNone, <<>>)
        ELSE IF self_logs = Unset
        THEN Outcome(files, y.sinks, RaisedAttributeError, <<>>)
        ELSE LET parser_file == NewParserFile(file_path, contract_yaml_str, y.root)
                 fs == RegisterFile(files, parser_file)
             IN  Outcome(fs, y.sinks, ParseReturn(parser_file),
                         PluginPass(plugins, parser_file, fs))

\* A parse that validates the registry again after registering its file.
ParseOutcomeRevalidating(contract_yaml_str, file_path, logs) ==
    LET resolved == resolve_variables(variable_resolver, contract_yaml_str)
        s1 == Log(sinks, logs, DebugEntry(file_path))
        y == ParseYamlStr(s1, file_path, resolved)
    IN  IF y.raised
        THEN Outcome(files, y.sinks, RaisedAttributeError, <<>>)
        ELSE IF y.root.type # "CommentedMap"
        THEN Outcome(files,
                     Log(y.sinks, logs, StructuralErrorEntry(file_path, y.root)),
                     ReturnedNone, <<>>)
        ELSE IF self_logs = Unset
        THEN Outcome(files, y.sinks, RaisedAttributeError, <<>>)
        ELSE LET parser_file == NewParserFile(file_path, contract_yaml_str, y.root)
                 fs == RegisterFile(files, parser_file)
             IN  Outcome(fs, LogAll(y.sinks, self_logs, SemanticErrors(fs)),
                         ParseReturn(parser_file),
                         PluginPass(plugins, parser_file, fs))

\* ContractParser.parse, lines 47-79.
ParseOutcome(contract_yaml_str, file_path, logs) ==
    LET resolved == resolve_variables(variable_resolver, contract_yaml_str)
        s1 == Log(sinks, logs, DebugEntry(file_path))
        y == ParseYamlStr(s1, file_path, resolved)
    IN  IF y.raised
        THEN Outcome(files, y.sinks, RaisedAttributeError, <<>>)
        ELSE IF y.root.type # "CommentedMap"
        THEN Outcome(files,
                     Log(y.sinks, logs, StructuralErrorEntry(file_path, y.root)),
                     ReturnedNone, <<>>)
        ELSE IF self_logs = Unset
        THEN Outcome(files, y.sinks, RaisedAttributeError, <<>>)
        ELSE LET parser_file == NewParserFile(file_path, contract_yaml_str, y.root)
                 fs == RegisterFile(files, parser_file)
             IN  Outcome(fs, y.sinks, ParseReturn(parser_file),
                         PluginPass(plugins, parser_file, fs))

\* A validation that empties the registry once it has reported errors.
ValidateOutcomeClearsFiles ==
    LET es == SemanticErrors(files)
    IN  IF es = <<>> THEN Outcome(files, sinks, ReturnedNone, <<>>)
        ELSE IF self_logs = Unset
        THEN Outcome(files, sinks, RaisedAttributeError, <<>>)
        ELSE Outcome(<<>>, LogAll(sinks, self_logs, es), ReturnedNone, <<>>)

\* ContractParser.validate_semantics: the first self.logs.error raises
\* AttributeError when the attribute is not there.
ValidateOutcome ==
    LET es == SemanticErrors(files)
    IN  IF es = <<>> THEN Outcome(files, sinks, ReturnedNone, <<>>)
        ELSE IF self_logs = Unset
        THEN Outcome(files, sinks, RaisedAttributeError, <<>>)
        ELSE Outcome(files, LogAll(sinks, self_logs, es), ReturnedNone, <<>>)

\* ----------------------------------------------------------------- actions
Call(op, text, file_path, logs, o) ==
    [op |-> op, text |-> text, file_path |-> file_path, logs |-> logs,
     result |-> o.result, invoked |-> o.invoked,
     files0 |-> files, sinks0 |-> sinks, plugins0 |-> plugins,
     resolver0 |-> variable_resolver, self_logs0 |-> self_logs]

Init ==
    /\ files = <<>>
    /\ plugins = <<>>
    /\ variable_resolver \in Resolvers
    /\ self_logs = Unset
    /\ sinks = [s \in Sinks |-> <<>>]
    /\ hist = <<>>

Parse(contract_yaml_str, logs) ==
    /\ Len(hist) < MaxCalls
    /\ LET file_path == PathAt(Len(hist) + 1)
           o == ParseOutcome(contract_yaml_str, file_path, logs)
       IN  /\ files' = o.files
           /\ sinks' = o.sinks
           /\ hist' = Append(hist, Call("parse", contract_yaml_str, file_path, logs, o))
    /\ UNCHANGED <<plugins, variable_resolver, self_logs>>

ValidateSemantics ==
    /\ Len(hist) < MaxCalls
    /\ LET o == ValidateOutcome
       IN  /\ files' = o.files
           /\ sinks' = o.sinks
           /\ hist' = Append(hist, Call("validate_semantics", NoText, "-", "-", o))
    /\ UNCHANGED <<plugins, variable_resolver, self_logs>>

\* Client code: parser.logs = <sink>, once, before the first call. No method
\* of the class assigns the attribute; without this step it stays Unset.
AttachLogs(s) ==
    /\ self_logs = Unset
    /\ hist = <<>>
    /\ self_logs' = s
    /\ UNCHANGED <<files, plugins, variable_resolver, sinks, hist>>

\* Client code: parser.plugins.append(plugin), before the first file.
RegisterPlugin ==
    /\ Len(plugins) < MaxPlugins
    /\ hist = <<>>
    /\ plugins' = Append(plugins, PluginAt(Len(plugins) + 1))
    /\ UNCHANGED <<files, variable_resolver, self_logs, sinks, hist>>

Next ==
    \/ \E t \in Texts, s \in Sinks : Parse(t, s)
    \/ ValidateSemantics
    \/ \E s \in Sinks : AttachLogs(s)
    \/ RegisterPlugin

Spec == Init /\ [][Next]_vars

\* ------------------------------------------- validation over a given registry
\* validate_semantics as a function of the registry and of self.logs: the
\* registry is any list of typed files of either class, each from its own
\* path, and the attribute is there or not.
FieldValues == {Absent, NonString, "db1", "db2"}

FileKinds ==
    { <<"ParserDatasourceFile", DatasourceText(n)>> : n \in FieldValues }
    \cup { <<"ParserDataContractFile", ContractText(d)>> : d \in FieldValues }

InputFile(k, i) == ParserFile(k[1], PathAt(i), k[2], yaml_load(k[2]))

Registries ==
    UNION { { [i \in 1..n |-> InputFile(ks[i], i)] : ks \in [1..n -> FileKinds] }
            : n \in 0..MaxFiles }

InitV ==
    /\ files \in Registries
    /\ plugins = <<>>
    /\ variable_resolver = "noop"
    /\ self_logs \in {Unset} \cup Sinks
    /\ sinks = [s \in Sinks |-> <<>>]
    /\ hist = <<>>

NextV == ValidateSemantics

SpecV == InitV /\ [][NextV]_vars

\* ------------------------------------------------- reading the call history
Calls == 1..Len(hist)
IsParse(i) == hist[i].op = "parse"
IsValidate(i) == hist[i].op = "validate_semantics"

\* The registry and the sinks as call i left them.
FilesAfter(i) == IF i = Len(hist) THEN files ELSE hist[i + 1].files0
SinksAfter(i) == IF i = Len(hist) THEN sinks ELSE hist[i + 1].sinks0
PluginsAfter(i) == IF i = Len(hist) THEN plugins ELSE hist[i + 1].plugins0
ResolverAfter(i) ==
    IF i = Len(hist) THEN variable_resolver ELSE hist[i + 1].resolver0

\* What call i appended to the sink s, and to all sinks together.
Emitted(i, s) ==
    SubSeq(SinksAfter(i)[s], Len(hist[i].sinks0[s]) + 1, Len(SinksAfter(i)[s]))
EmittedAll(i) == Emitted(i, "s1") \o Emitted(i, "s2")
IsPrefix(a, b) == Len(a) <= Len(b) /\ SubSeq(b, 1, Len(a)) = a
SelfLogsAfter(i) == IF i = Len(hist) THEN self_logs ELSE hist[i + 1].self_logs0
ErrorsOf(es) == SelectSeq(es, LAMBDA e : e.severity = "error")
Count(es, e) == Cardinality({ j \in 1..Len(es) : es[j] = e })

RegistryUnchanged(i) == FilesAfter(i) = hist[i].files0
RegistryGrewByOne(i) ==
    /\ Len(FilesAfter(i)) = Len(hist[i].files0) + 1
    /\ SubSeq(FilesAfter(i), 1, Len(hist[i].files0)) = hist[i].files0
AddedFile(i) == FilesAfter(i)[Len(FilesAfter(i))]

IsMappingText(t) == t.shape = "map"
IsSeqOrScalarText(t) == t.shape \in {"seq", "scalar"}
IsInvalidText(t) == t.shape = "invalid"

\* ------------------------------------------------------------------ claims

\* C1: for every text that is valid YAML with a mapping at top level, parse
\* returns a typed file and appends no error-severity diagnostic.
C1_MappingYieldsFile ==
    \A i \in Calls :
        (IsParse(i) /\ IsMappingText(hist[i].text)) =>
            /\ hist[i].result.kind = "file"
            /\ ErrorsOf(EmittedAll(i)) = <<>>

\* C2: every parse call either grows the registry by exactly one typed file
\* and returns that file, or leaves the registry unchanged, appends at least
\* one diagnostic and returns nothing; and two calls on the same text have the
\* same kind of outcome whatever the calls before them did.
C2_FileOrDiagnostic ==
    /\ \A i \in Calls :
        IsParse(i) =>
            \/ /\ RegistryGrewByOne(i)
               /\ hist[i].result = Returned(AddedFile(i))
            \/ /\ RegistryUnchanged(i)
               /\ EmittedAll(i) # <<>>
               /\ hist[i].result = ReturnedNone
    /\ \A i, j \in Calls :
        (IsParse(i) /\ IsParse(j) /\ hist[i].text = hist[j].text) =>
            /\ hist[i].result.kind = hist[j].result.kind
            /\ RegistryUnchanged(i) <=> RegistryUnchanged(j)

\* C3: for a text whose top-level value is a sequence or a scalar, parse
\* returns nothing, leaves the registry unchanged and appends exactly one
\* error, the structural one, located at (file_path, 0, 0).
C3_StructuralErrorLocated ==
    \A i \in Calls :
        (IsParse(i) /\ IsSeqOrScalarText(hist[i].text)) =>
            /\ hist[i].result = ReturnedNone
            /\ RegistryUnchanged(i)
            /\ Len(ErrorsOf(EmittedAll(i))) = 1
            /\ LET e == ErrorsOf(EmittedAll(i))[1]
               IN  /\ e.docs_ref = "04-data-contract-language.md#file-type"
                   /\ e.location = ParserLocation(hist[i].file_path, 0, 0)

\* C4: for a syntactically invalid text, parse returns nothing, leaves the
\* registry unchanged and appends exactly one error, the syntax error located
\* at the YAML parser's problem mark, and no structural error.
C4_OneSyntaxError ==
    \A i \in Calls :
        (IsParse(i) /\ IsInvalidText(hist[i].text)) =>
            /\ hist[i].result = ReturnedNone
            /\ RegistryUnchanged(i)
            /\ ErrorsOf(EmittedAll(i)) =
                 <<SyntaxErrorEntry(hist[i].file_path,
                                    yaml_load(hist[i].text))>>

\* C5: a parse call on a broken file never raises; a later parse call on a
\* valid file still adds that file to the registry; and validate_semantics
\* then runs to completion over a registry that holds it.
C5_FaultIsolation ==
    /\ \A i \in Calls :
        (IsParse(i) /\ ~IsMappingText(hist[i].text)) =>
            hist[i].result.kind # "AttributeError"
    /\ \A i, j \in Calls :
        (/\ i < j /\ IsParse(i) /\ ~IsMappingText(hist[i].text)
         /\ IsParse(j) /\ IsMappingText(hist[j].text)) =>
            /\ RegistryGrewByOne(j)
            /\ AddedFile(j).file_path = hist[j].file_path
            /\ \A k \in Calls :
                (k > j /\ IsValidate(k)) =>
                    /\ hist[k].result.kind # "AttributeError"
                    /\ \E m \in 1..Len(hist[k].files0) :
                           hist[k].files0[m] = AddedFile(j)

\* The name a text declares once its variables are resolved, and the parse
\* calls before call k that added a file from a text declaring the name n.
DeclaredNameOf(i) == resolve_variables(hist[i].resolver0, hist[i].text).name
IngestedDeclaring(k, n) ==
    { i \in 1..(k - 1) :
        /\ IsParse(i) /\ RegistryGrewByOne(i)
        /\ IsMappingText(hist[i].text) /\ DeclaredNameOf(i) = n }
DuplicatesFor(es, n) ==
    SelectSeq(es, LAMBDA e : e = DuplicateEntry(n, e.n, e.location))

\* C6: once parse has ingested k >= 2 datasource files declaring one name,
\* validate_semantics emits exactly k errors for the name, one at each
\* declaration site, each citing the count k.
C6_DuplicatesThroughParse ==
    \A v \in Calls : \A n \in {"db1", "db2"} :
        LET D == IngestedDeclaring(v, n)
        IN  (IsValidate(v) /\ Cardinality(D) >= 2) =>
                /\ Len(DuplicatesFor(EmittedAll(v), n)) = Cardinality(D)
                /\ \A i \in D :
                       Count(EmittedAll(v),
                             DuplicateEntry(n, Cardinality(D),
                                            NameOf(AddedFile(i)).location)) = 1

\* A file of the registry that declares the datasource name r.
DeclaresName(file, r) ==
    IsYamlString(NameOf(file)) /\ NameOf(file).value = r

\* C7: for every data-contract file of the registry whose datasource field is
\* a string r, validate_semantics emits exactly one 'not defined' error at the
\* field's location when no file of the registry declares the datasource r,
\* and none when some file declares it.
C7_ReferenceResolution ==
    \A v \in Calls :
        IsValidate(v) =>
            LET R == hist[v].files0
            IN  \A j \in 1..Len(R) :
                    (/\ IsDataContractFile(R[j])
                     /\ IsYamlString(DatasourceOf(R[j]))) =>
                        Count(EmittedAll(v),
                              UndefinedEntry(DatasourceOf(R[j]).value,
                                             DatasourceOf(R[j]).location))
                        = IF \E m \in 1..Len(R) :
                                 DeclaresName(R[m], DatasourceOf(R[j]).value)
                          THEN 0 ELSE 1

\* C8: two validate_semantics calls with no parse call between them produce
\* the same diagnostics, entry for entry, and end the same way.
C8_ValidateIdempotent ==
    \A i \in Calls :
        (i < Len(hist) /\ IsValidate(i) /\ IsValidate(i + 1)) =>
            /\ \A s \in Sinks : Emitted(i + 1, s) = Emitted(i, s)
            /\ hist[i + 1].result = hist[i].result

\* Two calls in a row of which the second reports a duplicate declaration
\* and an undefined reference.
C8_Witness ==
    /\ Len(hist) >= 2 /\ IsValidate(1) /\ IsValidate(2)
    /\ \E a, b \in 1..Len(EmittedAll(2)) :
          /\ EmittedAll(2)[a].fmt = "Datasource '{}' was declared {} times"
          /\ EmittedAll(2)[b].fmt = "Datasource '{}' is not defined"

\* C9: a parse call that adds a file invokes every entry of the plugin list
\* once with that file, in list order, the file already in the registry; a
\* parse call that adds no file invokes no plugin.
C9_PluginPass ==
    \A i \in Calls :
        IsParse(i) =>
            IF RegistryGrewByOne(i)
            THEN hist[i].invoked =
                    [n \in 1..Len(hist[i].plugins0) |->
                        [plugin |-> hist[i].plugins0[n],
                         file |-> AddedFile(i),
                         nfiles |-> Len(hist[i].files0) + 1]]
            ELSE RegistryUnchanged(i) /\ hist[i].invoked = <<>>

\* A parse call that added a file with two plugins on the list.
C9_Witness ==
    \E i \in Calls :
        /\ IsParse(i) /\ RegistryGrewByOne(i)
        /\ Len(hist[i].plugins0) >= 2
        /\ Len(hist[i].invoked) >= 2

\* C10: no parse call changes the parser instance: files, plugins and the
\* resolver are after the call what they were before it.
C10_ParseChangesNothing ==
    \A i \in Calls :
        IsParse(i) =>
            /\ RegistryUnchanged(i)
            /\ PluginsAfter(i) = hist[i].plugins0
            /\ ResolverAfter(i) = hist[i].resolver0

\* The positions of the registry R at which a datasource file declares the
\* string name n.
DeclarationSites(R, n) ==
    { j \in 1..Len(R) :
        /\ IsDatasourceFile(R[j])
        /\ IsYamlString(NameOf(R[j]))
        /\ NameOf(R[j]).value = n }
IsDuplicateEntry(e) == e.fmt = "Datasource '{}' was declared {} times"
IsUndefinedEntry(e) == e.fmt = "Datasource '{}' is not defined"

\* C11: over any registry, validate_semantics emits for every name declared by
\* n > 1 datasource files with a string name exactly n errors, one per
\* declaration location and each reporting the name and n; it emits no
\* duplicate error for a name declared once, and none for a datasource file
\* whose name is absent or not a string.
C11_DuplicateNames ==
    \A v \in Calls :
        IsValidate(v) =>
            LET R == hist[v].files0
                es == EmittedAll(v)
            IN  /\ \A n \in FieldValues :
                    LET D == DeclarationSites(R, n)
                    IN  IF Cardinality(D) > 1
                        THEN /\ Len(DuplicatesFor(es, n)) = Cardinality(D)
                             /\ \A j \in D :
                                    Count(es, DuplicateEntry(n, Cardinality(D),
                                              NameOf(R[j]).location)) = 1
                        ELSE DuplicatesFor(es, n) = <<>>
                /\ \A a \in 1..Len(es) :
                        IsDuplicateEntry(es[a]) =>
                            es[a].arg \in FieldValues \ {Absent, NonString}

\* The position in the registry R of the declaration a duplicate error is
\* located at.
SiteOf(R, e) ==
    CHOOSE j \in 1..Len(R) : NameOf(R[j]).location = e.location

C13_ValidateReadOnly ==
    \A v \in Calls :
        IsValidate(v) =>
            /\ FilesAfter(v) = hist[v].files0
            /\ PluginsAfter(v) = hist[v].plugins0
            /\ ResolverAfter(v) = hist[v].resolver0
            /\ SelfLogsAfter(v) = hist[v].self_logs0
            /\ \A s \in Sinks : IsPrefix(hist[v].sinks0[s], SinksAfter(v)[s])

\* A call that reported something, on a parser with files and plugins.
C13_Witness ==
    \E v \in Calls :
        /\ IsValidate(v)
        /\ hist[v].files0 # <<>>
        /\ hist[v].plugins0 # <<>>
        /\ EmittedAll(v) # <<>>

\* C14: over any sequence of parse and validate_semantics calls the registry
\* and every sink only grow at the end: what they held before a step is a
\* prefix of what they hold after it, so nothing is removed, replaced or
\* reordered.
C14_AppendOnly ==
    [][/\ IsPrefix(files, files')
       /\ \A s \in Sinks : IsPrefix(sinks[s], sinks'[s])]_vars

\* A session in which the registry grew in two parse calls and a sink grew in
\* a parse call and in a validate_semantics call between them.
C14_Witness ==
    \E p \in Calls : \E v \in Calls : \E q \in Calls : \E s \in Sinks :
        /\ p < v /\ v < q
        /\ IsParse(p) /\ IsValidate(v) /\ IsParse(q)
        /\ RegistryGrewByOne(p) /\ RegistryGrewByOne(q)
        /\ Emitted(p, s) # <<>> /\ Emitted(v, s) # <<>>

IsSemanticEntry(e) == IsDuplicateEntry(e) \/ IsUndefinedEntry(e)

\* C15: a parse call emits no duplicate-name and no undefined-reference error,
\* whether or not a validate_semantics call came before it, and every file in
\* the registry before a validate_semantics call is still in it afterwards.
C15_SemanticOnlyOnValidate ==
    \A i \in Calls :
        /\ IsParse(i) =>
               \A a \in 1..Len(EmittedAll(i)) : ~IsSemanticEntry(EmittedAll(i)[a])
        /\ IsValidate(i) =>
               \A j \in 1..Len(hist[i].files0) :
                   \E k \in 1..Len(FilesAfter(i)) :
                       FilesAfter(i)[k] = hist[i].files0[j]

\* A validate_semantics call that reported an undefined reference, followed by
\* a parse call that registered one more file with an undefined reference.
C15_Witness ==
    \E v \in Calls : \E p \in Calls :
        /\ v < p
        /\ IsValidate(v) /\ IsParse(p)
        /\ \E a \in 1..Len(EmittedAll(v)) : IsUndefinedEntry(EmittedAll(v)[a])
        /\ RegistryGrewByOne(p)
        /\ IsYamlString(DatasourceOf(AddedFile(p)))
        /\ SemanticErrors(FilesAfter(p)) # SemanticErrors(hist[p].files0)
        /\ EmittedAll(p) # <<>>

\* C16: every entry a parse call emits goes to the sink passed as its logs
\* argument and to no other sink, and the call needs no sink besides that one:
\* it does not fail for want of another.
C16_DiagnosticsToLogsArgument ==
    \A i \in Calls :
        IsParse(i) =>
            /\ \A s \in Sinks \ {hist[i].logs} : Emitted(i, s) = <<>>
            /\ hist[i].result.kind # "AttributeError"

\* C17: the file a parse call adds to the registry has as its tree the YAML
\* load of the text the resolver gives in a single pass over the raw text,
\* and as its file_content_str the raw text itself.
C17_ResolveOnceKeepRaw ==
    \A i \in Calls :
        (IsParse(i) /\ RegistryGrewByOne(i)) =>
            /\ AddedFile(i).root =
                   yaml_load(resolve_variables(hist[i].resolver0, hist[i].text))
            /\ AddedFile(i).file_content_str = hist[i].text

\* A file added under a substituting resolver from a text whose single-pass
\* resolution differs from the raw text and still holds a placeholder.
C17_Witness ==
    \E i \in Calls :
        /\ IsParse(i) /\ RegistryGrewByOne(i)
        /\ hist[i].resolver0 = "subst"
        /\ hist[i].text = ContractText(NestedPlaceholder)
        /\ AddedFile(i).root.datasource = Placeholder
        /\ AddedFile(i).file_content_str.datasource = NestedPlaceholder

====
